---- MODULE Spec2Model ----
(***************************************************************************)
(* Model of bank-grade-security, src/index.js: the scan loop, the result   *)
(* normaliser, the scorer, the history archive and the card ordering.      *)
(*                                                                         *)
(* JavaScript values are tagged records so that a boolean, a string,       *)
(* undefined and NaN stay distinct: Bool(b), Str(s), Undefined, Num(n),    *)
(* NaN.  A JavaScript object is the sequence of its own properties in      *)
(* insertion order, each a record [key, val].  Strings that the code       *)
(* compares or searches are sequences of UTF-16 code units.                *)
(***************************************************************************)
EXTENDS Integers, Sequences, FiniteSets, TLC

VARIABLES call, args, ret,
          pc, idx, scanState, results, bankResults, written

fnVars == <<call, args, ret>>
runVars == <<pc, idx, scanState, results, bankResults, written>>
vars == <<call, args, ret, pc, idx, scanState, results, bankResults, written>>

----------------------------------------------------------------------------
(* JavaScript values *)

Bool(b) == [bool |-> b]
Str(s) == [str |-> s]
Num(n) == [num |-> n]
Undefined == [undefined |-> TRUE]
NaN == [nan |-> TRUE]

typeof(v) ==
    IF "str" \in DOMAIN v THEN "string"
    ELSE IF "bool" \in DOMAIN v THEN "boolean"
    ELSE IF "num" \in DOMAIN v \/ "nan" \in DOMAIN v THEN "number"
    ELSE IF "undefined" \in DOMAIN v THEN "undefined"
    ELSE "object"

\* ToBoolean: the value of `if (v)'
Truthy(v) ==
    IF "bool" \in DOMAIN v THEN v.bool
    ELSE IF "str" \in DOMAIN v THEN v.str # ""
    ELSE IF "num" \in DOMAIN v THEN v.num # 0
    ELSE IF "undefined" \in DOMAIN v \/ "nan" \in DOMAIN v THEN FALSE
    ELSE TRUE

Prop(k, v) == [key |-> k, val |-> v]

Throw(e) == [throw |-> e]
Return(v) == [value |-> v]
Threw(r) == "throw" \in DOMAIN r

----------------------------------------------------------------------------
(* Bounds of the checked inputs *)

MaxMetrics == 3
MaxCards == 3
MaxTokens == 2
MaxBanks == 3

----------------------------------------------------------------------------
(* Scorer *)

\* all metric values of a results object, in for-in order
RECURSIVE MetricValues(_)
MetricValues(res) ==
    IF res = <<>> THEN <<>>
    ELSE [i \in 1..Len(res[1].val) |-> res[1].val[i].val]
         \o MetricValues(Tail(res))

RECURSIVE CountTotal(_)
CountTotal(vs) ==
    IF vs = <<>> THEN 0
    ELSE (IF "string" = typeof(vs[1]) THEN 0 ELSE 1) + CountTotal(Tail(vs))

RECURSIVE CountScore(_)
CountScore(vs) ==
    IF vs = <<>> THEN 0
    ELSE (IF "string" # typeof(vs[1]) /\ Truthy(vs[1]) THEN 1 ELSE 0)
         + CountScore(Tail(vs))

\* the quotient cut to an integer instead of rounded
MathTrunc(p, q) == p \div q

\* Math.round of the quotient p / q, q > 0: the nearest integer, a tie
\* going to the larger one
MathRound(p, q) == (2 * p + q) \div (2 * q)

calculateScore(res) ==
    LET vs == MetricValues(res)
        total == CountTotal(vs)
        score == CountScore(vs)
    IN  IF total = 0 THEN NaN      \* 0 / 0, and Math.round(NaN) is NaN
        ELSE Num(MathRound(score * 100, total))

Grades == <<"E", "D", "C", "B", "A", "Z">>

\* the index rounded to the nearest integer instead of floored
calculateGradeRounded(score) ==
    IF "nan" \in DOMAIN score THEN Undefined
    ELSE LET i == (score.num + 10) \div 20
         IN  IF i \in 0..(Len(Grades) - 1) THEN Str(Grades[i + 1])
             ELSE Undefined

calculateGrade(score) ==
    IF "nan" \in DOMAIN score THEN Undefined      \* [..][NaN]
    ELSE LET i == score.num \div 20
         IN  IF i \in 0..(Len(Grades) - 1) THEN Str(Grades[i + 1])
             ELSE Undefined

----------------------------------------------------------------------------
(* Strings the code searches or compares: sequences of characters *)

CodeUnit ==
    [c \in {" ", "'", "/", ":", "A", "B", "a", "d", "f", "h", "l", "n", "p",
            "s", "t", "u", "x", "z"} |->
        CASE c = " " -> 32 [] c = "'" -> 39 [] c = "/" -> 47 [] c = ":" -> 58
          [] c = "A" -> 65 [] c = "B" -> 66 [] c = "a" -> 97 [] c = "d" -> 100
          [] c = "f" -> 102 [] c = "h" -> 104 [] c = "l" -> 108
          [] c = "n" -> 110 [] c = "p" -> 112 [] c = "s" -> 115
          [] c = "t" -> 116 [] c = "u" -> 117 [] c = "x" -> 120
          [] c = "z" -> 122]

\* s < t on strings: by code unit, a proper prefix first
RECURSIVE StrLess(_, _)
StrLess(s, t) ==
    IF t = <<>> THEN FALSE
    ELSE IF s = <<>> THEN TRUE
    ELSE IF CodeUnit[s[1]] < CodeUnit[t[1]] THEN TRUE
    ELSE IF CodeUnit[s[1]] > CodeUnit[t[1]] THEN FALSE
    ELSE StrLess(Tail(s), Tail(t))

\* Array.prototype.join
RECURSIVE Join(_, _)
Join(arr, sep) ==
    IF arr = <<>> THEN <<>>
    ELSE IF Len(arr) = 1 THEN arr[1]
    ELSE arr[1] \o sep \o Join(Tail(arr), sep)

\* String.prototype.includes
Includes(s, e) ==
    \E i \in 1..(Len(s) - Len(e) + 1) : SubSeq(s, i, i + Len(e) - 1) = e

----------------------------------------------------------------------------
(* Result normaliser *)

\* a boolean property of a raw object that may be absent: its value or undefined
JsGet(o, k) == IF k \in DOMAIN o THEN Bool(o[k]) ELSE Undefined

\* a || b and !a on values
JsOr(a, b) == IF Truthy(a) THEN a ELSE b
JsNot(a) == Bool(~Truthy(a))

WildcardSchemes ==
    << <<" ", "d", "a", "t", "a", ":", " ">>,
       <<" ", "h", "t", "t", "p", ":", " ">>,
       <<" ", "h", "t", "t", "p", "s", ":", " ">> >>

\* the wildcard schemes looked for anywhere in the joined sources
FramingProtectionSubstring(csp) ==
    IF "frame-ancestors" \in DOMAIN csp /\ Len(csp["frame-ancestors"]) # 0
    THEN LET sources == Join(csp["frame-ancestors"], <<" ">>)
         IN  ~ \E k \in 1..Len(WildcardSchemes) :
                   Includes(sources,
                            SubSeq(WildcardSchemes[k], 2,
                                   Len(WildcardSchemes[k]) - 1))
    ELSE FALSE

\* the loop of lines 207-218; csp is the directive map of the CSP check
FramingProtection(csp) ==
    IF "frame-ancestors" \in DOMAIN csp /\ Len(csp["frame-ancestors"]) # 0
    THEN LET sources == <<" ">> \o Join(csp["frame-ancestors"], <<" ">>)
                        \o <<" ">>
         IN  ~ \E k \in 1..Len(WildcardSchemes) :
                   Includes(sources, WildcardSchemes[k])
    ELSE FALSE

\* parseCsp(results.contentSecurityPolicy.data), reading `results' of the
\* enclosing processResults; data absent makes csp["frame-ancestors"] throw
parseCsp(res) ==
    IF "data" \notin DOMAIN res.contentSecurityPolicy THEN Throw("TypeError")
    ELSE LET csp == res.contentSecurityPolicy.data
             framingProtection == Bool(FramingProtection(csp))
             xssProtection == Bool(res.contentSecurityPolicy.result)
         IN  Return(<<
               Prop("XSS Protection",
                    JsOr(xssProtection, Bool(res.xXssProtection.result))),
               Prop("Framing Protection",
                    JsOr(framingProtection, Bool(res.xFrameOptions.result)))
             >>)

\* result ? "" : data.value of one header check (lines 196-198)
HeaderThrows(check) == ~check.result /\ "data" \notin DOMAIN check
HeaderValue(check) == IF check.result THEN Str("") ELSE Str(check.data.value)

\* processResults(results) called while the global `bank' is b.  The value
\* returned is `response'; the Miscellaneous Headers object is assigned to
\* the argument `results' (line 195), reported here as `onResults'.
processResults(res, b) ==
    IF "undefined" \in DOMAIN res THEN Throw("TypeError")
    ELSE IF res.hsts.result /\ "data" \notin DOMAIN res.hsts
        THEN Throw("TypeError")
    ELSE IF "data" \notin DOMAIN res.tlsProtocols THEN Throw("TypeError")
    ELSE IF Threw(parseCsp(res)) THEN parseCsp(res)
    ELSE IF "undefined" \in DOMAIN b.results THEN Throw("TypeError")
    ELSE IF HeaderThrows(b.results.server) \/ HeaderThrows(b.results.poweredBy)
            \/ HeaderThrows(b.results.aspVersion) THEN Throw("TypeError")
    ELSE LET hsts == res.hsts
             tls == res.tlsProtocols.data
             response == <<
               Prop("HTTPS", <<
                 Prop("Upgrade HTTP", Bool(res.upgradeToHttps.result)),
                 Prop("Secure Redirection",
                      Bool(res.secureRedirectionChain.result)),
                 Prop("Accepts HTTPS", Bool(res.accepts.https)),
                 Prop("HSTS", Bool(hsts.result)),
                 Prop("HSTS Long Length",
                      IF ~hsts.result THEN Bool(FALSE)
                      ELSE Bool("age" \in DOMAIN hsts.data
                                /\ 180 <= hsts.data.age)),
                 Prop("HSTS Preloaded",
                      IF ~hsts.result THEN Bool(FALSE)
                      ELSE JsGet(hsts.data, "preloaded")) >>),
               Prop("TLS", <<
                 Prop("TLS 1.3 Enabled", JsGet(tls, "1.3")),
                 Prop("TLS 1.1 Disabled", JsNot(JsGet(tls, "1.1"))),
                 Prop("TLS 1.0 Disabled", JsNot(JsGet(tls, "1.0"))),
                 Prop("Forward Secrecy", Bool(res.forwardSecrecy.result)),
                 Prop("Certificate Length", Bool(res.certificate.result)) >>),
               Prop("DNS", <<
                 Prop("DNSSEC", Bool(res.dnssec.result)),
                 Prop("CAA", Bool(res.caa.result)) >>),
               Prop("CSP", parseCsp(res).value),
               Prop("HTTP", <<
                 Prop("Feature Policy", Bool(res.featurePolicy.result)),
                 Prop("Referrer Policy", Bool(res.referrerPolicy.result)),
                 Prop("MIME Type Sniffing Protection",
                      Bool(res.xContentTypeOptions.result)) >>)
             >>
             misc == Prop("Miscellaneous Headers", <<
                 Prop("Server", HeaderValue(b.results.server)),
                 Prop("X-Powered-By", HeaderValue(b.results.poweredBy)),
                 Prop("ASP.NET Version", HeaderValue(b.results.aspVersion)) >>)
         IN  [value |-> response, onResults |-> misc]

----------------------------------------------------------------------------
(* Card ordering *)

NumLess(a, b) == "num" \in DOMAIN a /\ "num" \in DOMAIN b /\ a.num < b.num

\* a comparator that stops at the score
compareCardsByScore(a, b) ==
    IF NumLess(a.score, b.score) THEN 1
    ELSE IF NumLess(b.score, a.score) THEN -1
    ELSE 0

\* the comparator handed to cards.sort (lines 392-408)
compareCards(a, b) ==
    IF NumLess(a.score, b.score) THEN 1
    ELSE IF NumLess(b.score, a.score) THEN -1
    ELSE IF StrLess(a.name, b.name) THEN -1
    ELSE IF StrLess(b.name, a.name) THEN 1
    ELSE 0

\* Array.prototype.sort with that comparator: a stable insertion sort
RECURSIVE InsertCard(_, _)
InsertCard(sorted, c) ==
    IF sorted = <<>> THEN <<c>>
    ELSE IF compareCards(c, sorted[Len(sorted)]) < 0
         THEN Append(InsertCard(SubSeq(sorted, 1, Len(sorted) - 1), c),
                     sorted[Len(sorted)])
         ELSE Append(sorted, c)

RECURSIVE sortCards(_)
sortCards(cards) ==
    IF cards = <<>> THEN <<>>
    ELSE InsertCard(sortCards(SubSeq(cards, 1, Len(cards) - 1)),
                    cards[Len(cards)])

----------------------------------------------------------------------------
(* History archive *)

\* Object.keys(o).sort().forEach(key => ordered[key] = o[key]):
\* the properties of o re-inserted in ascending key order (lines 146-149)
RECURSIVE InsertKey(_, _)
InsertKey(sorted, p) ==
    IF sorted = <<>> THEN <<p>>
    ELSE IF StrLess(p.key, sorted[Len(sorted)].key)
         THEN Append(InsertKey(SubSeq(sorted, 1, Len(sorted) - 1), p),
                     sorted[Len(sorted)])
         ELSE Append(sorted, p)

RECURSIVE SortKeys(_)
SortKeys(o) ==
    IF o = <<>> THEN <<>>
    ELSE InsertKey(SortKeys(SubSeq(o, 1, Len(o) - 1)), o[Len(o)])

\* JSON.stringify then JSON.parse of an object of metric values: a property
\* whose value is undefined is not written, every other one comes back as is
JsonMetrics(o) == SelectSeq(o, LAMBDA p : "undefined" \notin DOMAIN p.val)

\* the same, one level up: an object whose values are objects of level f
JsonResults(o) == [i \in 1..Len(o) |-> Prop(o[i].key, JsonMetrics(o[i].val))]
JsonBanks(o) == [i \in 1..Len(o) |-> Prop(o[i].key, JsonResults(o[i].val))]
JsonCountries(o) == [i \in 1..Len(o) |-> Prop(o[i].key, JsonBanks(o[i].val))]

\* the archive entry written for the month `date' (lines 136-152), as the
\* document a later JSON.parse of the file gives back
Snapshot(fullResults, date) ==
    [name |-> date, content |-> JsonCountries(SortKeys(fullResults))]

\* the history entries one archive file adds (lines 623-640)
FileEntries(file) ==
    UNION { { [countryCode |-> file.content[i].key,
               bankName |-> file.content[i].val[j].key,
               scanDate |-> file.name,
               score |-> calculateScore(file.content[i].val[j].val),
               grade |-> calculateGrade(
                             calculateScore(file.content[i].val[j].val))] :
                j \in 1..Len(file.content[i].val) } :
            i \in 1..Len(file.content) }

\* getHistory over the files of the history directory
getHistory(directory) ==
    UNION { FileEntries(directory[k]) : k \in 1..Len(directory) }

----------------------------------------------------------------------------
(* The run: scanWebsites and createWebsite *)

BankNames == <<"ANZ", "Kiwibank", "Westpac", "ASB", "BNZ">>
CountryCodes == <<"nz", "au">>

\* the bank objects BANKS.read delivers, sorted
Bank(i) ==
    [name |-> BankNames[i], domain |-> BankNames[i],
     country |-> [code |-> CountryCodes[(i % 2) + 1]]]

\* a raw result set of the scanner
MkRaw(domain, pass, hsts, tls, csp, legacy, misc) ==
    [domain |-> domain,
     upgradeToHttps |-> [result |-> pass],
     secureRedirectionChain |-> [result |-> pass],
     accepts |-> [https |-> pass],
     hsts |-> hsts,
     tlsProtocols |-> tls,
     forwardSecrecy |-> [result |-> pass],
     certificate |-> [result |-> pass],
     dnssec |-> [result |-> pass],
     caa |-> [result |-> pass],
     contentSecurityPolicy |-> csp,
     xXssProtection |-> [result |-> legacy[1]],
     xFrameOptions |-> [result |-> legacy[2]],
     featurePolicy |-> [result |-> pass],
     referrerPolicy |-> [result |-> pass],
     xContentTypeOptions |-> [result |-> pass],
     server |-> misc[1], poweredBy |-> misc[2], aspVersion |-> misc[3]]

\* what (new WSS(domain)).scan() resolves to
ScanOf(domain) ==
    MkRaw(domain, TRUE,
          [result |-> TRUE, data |-> [age |-> 365, preloaded |-> TRUE]],
          [data |-> [k \in {"1.3", "1.1", "1.0"} |-> k = "1.3"]],
          [result |-> FALSE, data |-> [x \in {} |-> <<>>]],
          <<TRUE, TRUE>>,
          <<[result |-> TRUE], [result |-> TRUE], [result |-> TRUE]>>)

\* results.shift() for each bank in turn (lines 66-68): the values assigned
\* to bank.results
RECURSIVE Shifted(_, _)
Shifted(queue, n) ==
    IF n = 0 THEN <<>>
    ELSE IF queue = <<>> THEN <<Undefined>> \o Shifted(queue, n - 1)
    ELSE <<queue[1]>> \o Shifted(Tail(queue), n - 1)

\* writeHomePage reads `countries', which is a binding of main and a
\* parameter of createWebsite only: a ReferenceError (line 363)
writeHomePage(cards) == Throw("ReferenceError")

\* the loop of lines 99-126 from bank k on, `files' written so far
RECURSIVE BankLoop(_, _, _)
BankLoop(banks, k, files) ==
    IF k > Len(banks) THEN [written |-> files, threw |-> FALSE]
    ELSE IF "undefined" \in DOMAIN banks[k]
        THEN [written |-> files, threw |-> TRUE]     \* bank.results
    ELSE IF Threw(processResults(banks[k].results, banks[k]))
        THEN [written |-> files, threw |-> TRUE]
    ELSE BankLoop(banks, k + 1, files \cup {<<"bank", banks[k].name>>})

\* createWebsite(banks, countries): the files it writes before it returns
\* or throws
createWebsite(banks, countries) ==
    LET loop == BankLoop(banks, 1, {})
        pages == loop.written \cup {<<"country", c>> : c \in countries}
    IN  IF loop.threw THEN loop
        ELSE IF Threw(writeHomePage(<<>>))
            THEN [written |-> pages, threw |-> TRUE]
        ELSE [written |-> pages \cup {<<"index.html", "">>,
                                      <<"sitemap.txt", "">>,
                                      <<"history", "">>},
              threw |-> FALSE]

NumBanks == Len(scanState)
CountriesOf(n) == {Bank(i).country.code : i \in 1..n}
Alive == pc # "exited"

\* scan(): the thunk starts the scan of bank idx and returns undefined, so
\* the await of line 61 does not wait for the scan
CallScan ==
    /\ pc = "scan"
    /\ idx <= NumBanks
    /\ scanState' = [scanState EXCEPT ![idx] = "pending"]
    /\ pc' = "wait"
    /\ UNCHANGED <<idx, results, bankResults, written, fnVars>>

\* the timer of wait() fires, the loop goes on to the next bank
TimerFires ==
    /\ pc = "wait"
    /\ pc' = "scan"
    /\ idx' = idx + 1
    /\ UNCHANGED <<scanState, results, bankResults, written, fnVars>>

\* a scan in flight resolves: results.push(rs) (line 56)
ScanResolves ==
    /\ Alive
    /\ \E j \in 1..NumBanks :
         /\ scanState[j] = "pending"
         /\ scanState' = [scanState EXCEPT ![j] = "resolved"]
         /\ results' = Append(results, ScanOf(Bank(j).domain))
    /\ UNCHANGED <<pc, idx, bankResults, written, fnVars>>

\* a scan in flight rejects; nothing handles the rejection, which ends the
\* process or is only reported, by the version of the runtime
ScanRejects ==
    /\ Alive
    /\ \E j \in 1..NumBanks :
         /\ scanState[j] = "pending"
         /\ scanState' = [scanState EXCEPT ![j] = "rejected"]
    /\ \E exits \in BOOLEAN : pc' = IF exits THEN "exited" ELSE pc
    /\ UNCHANGED <<idx, results, bankResults, written, fnVars>>

\* after the loop (lines 66-70): each bank takes the head of results, the
\* map's callback returns nothing so `banks' becomes an array of undefined,
\* and createWebsite runs on it
Finish ==
    /\ pc = "scan"
    /\ idx > NumBanks
    /\ bankResults' = Shifted(results, NumBanks)
    /\ results' = SubSeq(results, Len(bankResults') + 1, Len(results))
    /\ LET banks == [i \in 1..NumBanks |-> Undefined]
           run == createWebsite(banks, CountriesOf(NumBanks))
       IN  /\ written' = run.written
           /\ \E exits \in BOOLEAN :
                pc' = IF run.threw /\ exits THEN "exited" ELSE "ended"
    /\ UNCHANGED <<idx, scanState, fnVars>>

Pending == [pending |-> TRUE]

RunInit ==
    /\ pc = "scan"
    /\ idx = 1
    /\ results = <<>>
    /\ bankResults = <<>>
    /\ written = {}

Init ==
    /\ RunInit
    /\ \E n \in 0..MaxBanks : scanState = [i \in 1..n |-> "idle"]
    /\ call = "main"
    /\ args = <<>>
    /\ ret = Pending

Next == CallScan \/ TimerFires \/ ScanResolves \/ ScanRejects \/ Finish

Spec == Init /\ [][Next]_vars

----------------------------------------------------------------------------
(* The functions on their own: Init draws a call and its argument, the      *)
(* action of the call applies the function.                                 *)

SeqsUpTo(S, n) == UNION { [1..k -> S] : k \in 0..n }

HttpsMetrics ==
    <<"Upgrade HTTP", "Secure Redirection", "Accepts HTTPS", "HSTS",
      "HSTS Long Length", "HSTS Preloaded">>
MiscMetrics == <<"Server", "X-Powered-By", "ASP.NET Version", "Via", "Age">>

Named(names, vals) == [i \in 1..Len(vals) |-> Prop(names[i], vals[i])]

\* results objects of two categories with up to MaxMetrics metrics each
ResultsOver(V) ==
    { << Prop("HTTPS", Named(HttpsMetrics, a)),
         Prop("Miscellaneous Headers", Named(MiscMetrics, b)) >> :
        a \in SeqsUpTo(V, MaxMetrics), b \in SeqsUpTo(V, MaxMetrics) }

ScoredValues == {Bool(TRUE), Bool(FALSE), Str(""), Str("nginx")}
StoredValues == ScoredValues \cup {Undefined}

Scores == {Num(n) : n \in 0..100} \cup {NaN}

CardNames == { <<"A">>, <<"B">>, <<"a">>, <<"A", "B">> }
Cards ==
    { [score |-> Num(n), name |-> nm, html |-> h] :
        n \in {80, 90}, nm \in CardNames, h \in {"nz", "au"} }

Tokens ==
    { <<"d", "a", "t", "a", ":">>,
      <<"h", "t", "t", "p", ":">>,
      <<"h", "t", "t", "p", "s", ":">>,
      <<"h", "t", "t", "p", "s", ":", "/", "/", "a">>,
      <<"x", "h", "t", "t", "p", ":">>,
      <<"'", "s", "e", "l", "f", "'">> }

NoDirectives == [d \in {} |-> <<>>]
CspData ==
    {NoDirectives}
    \cup { [d \in {"frame-ancestors"} |-> ts] : ts \in SeqsUpTo(Tokens, MaxTokens) }
CspChecks ==
    { [result |-> r] : r \in BOOLEAN }
    \cup { [result |-> r, data |-> d] : r \in BOOLEAN, d \in CspData }

GoodHsts == [result |-> TRUE, data |-> [age |-> 365, preloaded |-> TRUE]]
GoodTls == [data |-> [k \in {"1.3", "1.1", "1.0"} |-> k = "1.3"]]
NoLeaks == <<[result |-> TRUE], [result |-> TRUE], [result |-> TRUE]>>

CspRaws ==
    { MkRaw("csp", FALSE, GoodHsts, GoodTls, c, <<xss, xfo>>, NoLeaks) :
        c \in CspChecks, xss \in BOOLEAN, xfo \in BOOLEAN }

HstsChecks ==
    { [result |-> r] : r \in BOOLEAN }
    \cup { [result |-> r, data |-> d] :
             r \in BOOLEAN,
             d \in [age : {179, 180}, preloaded : BOOLEAN]
                   \cup {[age |-> 180], [k \in {} |-> 0]} }
TlsChecks ==
    { [k \in {} |-> 0] }
    \cup { [data |-> d] :
             d \in UNION { [S -> BOOLEAN] :
                           S \in { {}, {"1.1", "1.0"}, {"1.3", "1.1", "1.0"} } } }
HeaderChecks ==
    { [result |-> TRUE], [result |-> FALSE],
      [result |-> FALSE, data |-> [value |-> "nginx"]] }
SmallCspChecks ==
    { c \in CspChecks :
        "data" \in DOMAIN c =>
            \A d \in DOMAIN c.data : Len(c.data[d]) = 1 /\ c.data[d][1][1] = "'" }

Raws ==
    { MkRaw("raw", p, h, t, c, <<p, p>>, <<sv, pb, pb>>) :
        p \in BOOLEAN, h \in HstsChecks, t \in TlsChecks,
        c \in SmallCspChecks, sv \in HeaderChecks, pb \in HeaderChecks }

\* one country with a bank holding the results, one with a bank that passed
\* two checks, inserted so that the sort of the keys reorders them
FullResultsOf(res) ==
    << Prop(<<"n", "z">>, <<Prop("Kiwibank", res)>>),
       Prop(<<"a", "u">>,
            <<Prop("ANZ", <<Prop("DNS", <<Prop("DNSSEC", Bool(TRUE)),
                                          Prop("CAA", Bool(TRUE))>>)>>)>>) >>

TlsMetrics ==
    <<"TLS 1.3 Enabled", "TLS 1.1 Disabled", "TLS 1.0 Disabled",
      "Forward Secrecy", "Certificate Length">>

ArchivedResults ==
    { << Prop("TLS", Named(TlsMetrics, a)),
         Prop("Miscellaneous Headers", Named(MiscMetrics, b)) >> :
        a \in SeqsUpTo(StoredValues, MaxMetrics),
        b \in SeqsUpTo({Str("nginx"), Undefined}, 1) }

Archives == { [fullResults |-> FullResultsOf(r), date |-> "202611"] :
                r \in ArchivedResults }

FnInit ==
    /\ RunInit
    /\ scanState = <<>>
    /\ ret = Pending
    /\ \/ call = "calculateScore" /\ args \in ResultsOver(ScoredValues)
       \/ call = "calculateGrade" /\ args \in Scores
       \/ call = "sortCards" /\ args \in SeqsUpTo(Cards, MaxCards)
       \/ call = "parseCsp" /\ args \in CspRaws
       \/ call = "processResults" /\ args \in Raws
       \/ call = "getHistory" /\ args \in Archives

\* lines 109-110: the score of a results object and the grade of that score
CallCalculateScore ==
    /\ call = "calculateScore" /\ ret = Pending
    /\ ret' = [score |-> calculateScore(args),
               grade |-> calculateGrade(calculateScore(args))]
    /\ UNCHANGED <<call, args, runVars>>

CallCalculateGrade ==
    /\ call = "calculateGrade" /\ ret = Pending
    /\ ret' = Return(calculateGrade(args))
    /\ UNCHANGED <<call, args, runVars>>

CallSortCards ==
    /\ call = "sortCards" /\ ret = Pending
    /\ ret' = Return(sortCards(args))
    /\ UNCHANGED <<call, args, runVars>>

CallParseCsp ==
    /\ call = "parseCsp" /\ ret = Pending
    /\ ret' = parseCsp(args)
    /\ UNCHANGED <<call, args, runVars>>

\* line 101, processResults(bank.results) with the global `bank'
CallProcessResults ==
    /\ call = "processResults" /\ ret = Pending
    /\ ret' = processResults(args, [results |-> args])
    /\ UNCHANGED <<call, args, runVars>>

\* one run writes the month's archive entry, the next run's getHistory
\* reads the history directory
WriteThenGetHistory ==
    /\ call = "getHistory" /\ ret = Pending
    /\ ret' = Return(getHistory(<<Snapshot(args.fullResults, args.date)>>))
    /\ UNCHANGED <<call, args, runVars>>

FnNext ==
    \/ CallCalculateScore \/ CallCalculateGrade \/ CallSortCards
    \/ CallParseCsp \/ CallProcessResults \/ WriteThenGetHistory

FnSpec == FnInit /\ [][FnNext]_vars

----------------------------------------------------------------------------
(* Scorer: claims C1, C2, C8 *)

Returned == ret # Pending

\* the places of a results object that hold a value of the set V
PlacesIn(res, V) ==
    UNION { { <<i, j>> : j \in { k \in 1..Len(res[i].val) :
                                   res[i].val[k].val \in V } } :
            i \in 1..Len(res) }

BoolMetrics(res) == Cardinality(PlacesIn(res, {Bool(TRUE), Bool(FALSE)}))
PassedMetrics(res) == Cardinality(PlacesIn(res, {Bool(TRUE)}))
StringMetrics(res) == Cardinality(PlacesIn(res, {Str(""), Str("nginx")}))

Dist(a, b) == IF a < b THEN b - a ELSE a - b

\* C1: with N >= 1 boolean metrics of which P are true, and any string
\* metrics beside them, calculateScore returns an integer in 0..100 that is
\* 100 * P / N rounded to the nearest integer.
C1_ScoreIsRoundedPassRate ==
    (call = "calculateScore" /\ Returned /\ BoolMetrics(args) >= 1) =>
        /\ "num" \in DOMAIN ret.score
        /\ ret.score.num \in 0..100
        /\ 2 * Dist(ret.score.num * BoolMetrics(args),
                    100 * PassedMetrics(args)) <= BoolMetrics(args)

\* two of three booleans true beside two string metrics: 67
C1_Witness ==
    /\ call = "calculateScore" /\ Returned
    /\ BoolMetrics(args) = 3 /\ PassedMetrics(args) = 2
    /\ StringMetrics(args) = 2
    /\ ret.score = Num(67)

GradeOfBucket(n) ==
    IF n \in 0..19 THEN "E"
    ELSE IF n \in 20..39 THEN "D"
    ELSE IF n \in 40..59 THEN "C"
    ELSE IF n \in 60..79 THEN "B"
    ELSE IF n \in 80..99 THEN "A"
    ELSE "Z"

\* C2: for an integer score in 0..100 calculateGrade returns the letter of
\* the score's bucket, 0..19 E, 20..39 D, 40..59 C, 60..79 B, 80..99 A, and
\* Z exactly for 100.
C2_GradeBuckets ==
    (call = "calculateGrade" /\ Returned /\ "num" \in DOMAIN args) =>
        /\ ret.value = Str(GradeOfBucket(args.num))
        /\ (ret.value = Str("Z")) <=> (args.num = 100)

C2_Witness ==
    call = "calculateGrade" /\ Returned /\ args = Num(100)
    /\ ret.value = Str("Z")

\* C8: with no boolean metric at all calculateScore returns a fallback
\* integer in 0..100 and calculateGrade of it is one of the six letters.
C8_ZeroMetricsFallback ==
    (call = "calculateScore" /\ Returned /\ BoolMetrics(args) = 0) =>
        /\ "num" \in DOMAIN ret.score
        /\ ret.score.num \in 0..100
        /\ ret.grade \in {Str(Grades[g]) : g \in 1..Len(Grades)}

----------------------------------------------------------------------------
(* Normaliser: claims C4, C6, C9 *)

Keys(o) == [i \in 1..Len(o) |-> o[i].key]

\* C4: whatever the raw input, the results processResults returns have the
\* six categories, Miscellaneous Headers among them with its three metrics.
C4_FixedShape ==
    (call = "processResults" /\ Returned /\ ~Threw(ret)) =>
        /\ Keys(ret.value) = <<"HTTPS", "TLS", "DNS", "CSP", "HTTP",
                               "Miscellaneous Headers">>
        /\ Keys(ret.value[Len(ret.value)].val)
               = <<"Server", "X-Powered-By", "ASP.NET Version">>

\* C6: processResults does not throw on a raw result set in which the data
\* of a check, or a field of it, is absent.
C6_Total ==
    (call = "processResults" /\ Returned) => ~Threw(ret)

WildcardTokens ==
    { <<"d", "a", "t", "a", ":">>, <<"h", "t", "t", "p", ":">>,
      <<"h", "t", "t", "p", "s", ":">> }

FrameAncestors(raw) ==
    IF "frame-ancestors" \in DOMAIN raw.contentSecurityPolicy.data
    THEN raw.contentSecurityPolicy.data["frame-ancestors"]
    ELSE <<>>

\* C9: Framing Protection is true exactly when X-Frame-Options passed or
\* frame-ancestors has a token and no token is data:, http: or https: as a
\* whole; without tokens it equals the X-Frame-Options check.
C9_FramingProtection ==
    (call = "parseCsp" /\ Returned /\ ~Threw(ret)) =>
        LET ts == FrameAncestors(args)
        IN  ret.value[2] =
              Prop("Framing Protection",
                   Bool(\/ args.xFrameOptions.result
                        \/ /\ Len(ts) >= 1
                           /\ \A i \in 1..Len(ts) : ts[i] \notin WildcardTokens))

\* https://a and xhttp: only contain a wildcard scheme: still protected
C9_Witness ==
    /\ call = "parseCsp" /\ Returned /\ ~Threw(ret)
    /\ ~args.xFrameOptions.result
    /\ FrameAncestors(args) = << <<"h", "t", "t", "p", "s", ":", "/", "/", "a">>,
                                 <<"x", "h", "t", "t", "p", ":">> >>
    /\ ret.value[2].val = Bool(TRUE)

----------------------------------------------------------------------------
(* Archive: claim C5 *)

\* C5: for every bank of the snapshot written, the entry getHistory gives
\* for that month has the score and grade of the results held in memory.
C5_RoundTrip ==
    (call = "getHistory" /\ Returned) =>
        \A i \in 1..Len(args.fullResults) :
          \A j \in 1..Len(args.fullResults[i].val) :
            [countryCode |-> args.fullResults[i].key,
             bankName |-> args.fullResults[i].val[j].key,
             scanDate |-> args.date,
             score |-> calculateScore(args.fullResults[i].val[j].val),
             grade |-> calculateGrade(
                 calculateScore(args.fullResults[i].val[j].val))]
              \in ret.value

----------------------------------------------------------------------------
(* Ordering: claim C10 *)

Occurrences(s, c) == Cardinality({i \in 1..Len(s) : s[i] = c})

InOrder(a, b) ==
    \/ a.score.num > b.score.num
    \/ a.score.num = b.score.num /\ ~StrLess(b.name, a.name)

DistinctBanks(cards) ==
    \A i, j \in 1..Len(cards) :
        i # j => cards[i].score # cards[j].score \/ cards[i].name # cards[j].name

\* C10: sortCards returns a permutation of the cards by score descending,
\* then name ascending; the comparator is 0 only for equal score and name,
\* and the order of distinct banks is the same for every input order.
C10_SortCards ==
    (call = "sortCards" /\ Returned) =>
        LET out == ret.value
        IN  /\ Len(out) = Len(args)
            /\ \A i \in 1..Len(args) :
                   Occurrences(out, args[i]) = Occurrences(args, args[i])
            /\ \A i, j \in 1..Len(out) : i < j => InOrder(out[i], out[j])
            /\ \A i, j \in 1..Len(args) :
                   compareCards(args[i], args[j]) = 0 =>
                       /\ args[i].score = args[j].score
                       /\ args[i].name = args[j].name
            /\ DistinctBanks(args) =>
                   \A p \in Permutations(1..Len(args)) :
                       sortCards([i \in 1..Len(args) |-> args[p[i]]]) = out

\* B(80), A(90), A(80) come out as A(90), A(80), B(80)
C10_Witness ==
    /\ call = "sortCards" /\ Returned
    /\ [i \in 1..Len(args) |-> <<args[i].score.num, args[i].name>>]
           = << <<80, <<"B">>>>, <<90, <<"A">>>>, <<80, <<"A">>>> >>
    /\ [i \in 1..Len(ret.value) |->
           <<ret.value[i].score.num, ret.value[i].name>>]
           = << <<90, <<"A">>>>, <<80, <<"A">>>>, <<80, <<"B">>>> >>

----------------------------------------------------------------------------
(* The run: claims C3, C7 *)

\* C3: whatever the order in which the scans complete, the results a bank
\* is given are those the scanner produced for that bank's own domain.
C3_AttributedByIdentity ==
    \A b \in 1..Len(bankResults) :
        "undefined" \notin DOMAIN bankResults[b] =>
            bankResults[b].domain = Bank(b).domain

RunOver == pc \in {"ended", "exited"}

\* C7: when the scan of a bank fails, the run still ends with the page of
\* every bank that was scanned, the country pages, the homepage, the sitemap
\* and the month's archive entry written.
C7_BatchCompletes ==
    (RunOver /\ \E j \in 1..NumBanks : scanState[j] = "rejected") =>
        /\ \A j \in 1..NumBanks :
               scanState[j] = "resolved" => <<"bank", Bank(j).name>> \in written
        /\ \A c \in CountriesOf(NumBanks) : <<"country", c>> \in written
        /\ {<<"index.html", "">>, <<"sitemap.txt", "">>, <<"history", "">>}
               \subseteq written

====
